---- MODULE Spec2Model ----
(***************************************************************************)
(* The render target table of the media driver                             *)
(* (DDI_CODEC_RENDER_TARGET_TABLE, media_ddi_render_target_table.cpp/.h):  *)
(* a map from VASurfaceIDs to frame indices drawn from a pool, with a      *)
(* history of the surfaces used by the last BeginPicture..EndPicture sets  *)
(* that decides which surfaces are evicted when the pool runs dry.         *)
(*                                                                         *)
(* One action per public method.  RegisterRTSurface is split at its while  *)
(* loop: the call enters (RegisterRTSurface, SetCurrentRTSurface,          *)
(* SetCurrentReconTarget), then every iteration of the loop is one step    *)
(* (RegisterEvict), then the code after the loop is one step               *)
(* (RegisterAssign).  While pc = "reg_loop" no other method runs: the      *)
(* table has a single owner.                                               *)
(***************************************************************************)
EXTENDS Integers, Sequences, FiniteSets, TLC

\* ------------------------------------------------------------ bounds
\* Surface ids the client of the "wide" profile uses: 1 .. NumHandles.
NumHandles == 3
\* Largest max_num_entries handed to Init.
MaxCapacity == 2
\* "wide" profile: most ids recorded in the open picture set.
MaxEpochLen == 3
\* "wide" profile: most picture sets the client lets the history hold.
MaxHistoryWide == 2

\* ------------------------------------------------------------ program constants
\* va.h: 0xffffffff, the all-ones VASurfaceID; -1 as a TLC integer.
VA_INVALID_ID == -1
\* CODECHAL_INVALID_FRAME_INDEX, the all-ones RTTableIdx (uint8_t).
INVALID_RT_TABLE_INDEX == 255
\* BegeinPicture: const size_t maxHistorySize = 20.
maxHistorySize == 20
\* RTTableIdx = uint8_t.
RTTableIdxBits == 8

VA_STATUS_SUCCESS == "VA_STATUS_SUCCESS"
VA_STATUS_ERROR_INVALID_PARAMETER == "VA_STATUS_ERROR_INVALID_PARAMETER"
VA_STATUS_ERROR_OPERATION_FAILED == "VA_STATUS_ERROR_OPERATION_FAILED"
\* what status holds after a method that returns void or a value
NoStatus == "none"

VARIABLES
    m_current_rt_surface,   \* VASurfaceID
    m_current_recon_target, \* VASurfaceID
    m_va_to_rt_map,         \* std::map<VASurfaceID, RTTableIdx>: a function on the registered ids
    m_free_index_pool,      \* std::vector<RTTableIdx>
    m_usedSurfaces,         \* std::vector<std::vector<VASurfaceID>>, [1] is the open picture set
    max_num_entries,        \* the argument of the last Init
    pc,                     \* "idle", "reg_loop" (inside RegisterRTSurface's while), "init_loop" (inside Init's for), "crashed"
    call,                   \* the method running or last run, and its argument
    status,                 \* the VAStatus the last method returned
    ret,                    \* the value the last GetFrameIdx / GetVAID returned
    pre,                    \* the table as it was when the running RegisterRTSurface was entered
    evicted,                \* the ids RemoveLastHistoryElement unregistered in this method, in order
    profile,                \* which client drives the table: "wide", "targets" or "deep"
    i,                      \* RTTableIdx i, the counter of Init's loop while Init runs step by step
    twin                    \* a second table driven by the same calls, where two tables are compared

vars == <<m_current_rt_surface, m_current_recon_target, m_va_to_rt_map,
          m_free_index_pool, m_usedSurfaces, max_num_entries, pc, call,
          status, ret, pre, evicted, profile, i, twin>>

\* ------------------------------------------------------------ helpers
Elems(s) == {s[k] : k \in 1..Len(s)}

\* every id recorded in some picture set of a history
Members(used) == UNION {Elems(used[k]) : k \in 1..Len(used)}

\* the three containers of the table as one value
Table == [map |-> m_va_to_rt_map, pool |-> m_free_index_pool, used |-> m_usedSurfaces]

SetTable(t) ==
    /\ m_va_to_rt_map' = t.map
    /\ m_free_index_pool' = t.pool
    /\ m_usedSurfaces' = t.used

NoPre == [map |-> <<>>, pool |-> <<>>, used |-> <<>>, set |-> FALSE]

Snapshot(t) == [map |-> t.map, pool |-> t.pool, used |-> t.used, set |-> TRUE]

\* ------------------------------------------------------------ the table's code

\* bool IsRegistered(id): m_va_to_rt_map.find(id) != end()
IsRegistered(map, id) == id \in DOMAIN map

\* m_va_to_rt_map[id] = idx
MapAssign(map, id, idx) ==
    [h \in (DOMAIN map) \cup {id} |-> IF h = id THEN idx ELSE map[h]]

\* m_va_to_rt_map.erase(id)
MapErase(map, id) == [h \in (DOMAIN map) \ {id} |-> map[h]]

\* vec.erase(std::remove(vec.begin(), vec.end(), id), vec.end())
EraseRemove(vec, id) == SelectSeq(vec, LAMBDA x : x # id)

\* Init's loop: for (RTTableIdx i = 0; i < max_num_entries; i++) push_back(i),
\* for the capacities below 2^8, where the uint8_t counter reaches the bound.
InitPool(n) == [k \in 1..n |-> (k - 1) % (2 ^ RTTableIdxBits)]

\* The containers after Init(n).
InitTable(n) == [map |-> <<>>, pool |-> InitPool(n), used |-> << <<>> >>]

\* UnRegisterRTSurface that forgets to hand the index back to the pool.
UnRegister_KeepsIndex(t, id) ==
    IF ~IsRegistered(t.map, id)
    THEN [t |-> t, st |-> VA_STATUS_ERROR_INVALID_PARAMETER]
    ELSE [t |-> [map |-> MapErase(t.map, id),
                 pool |-> t.pool,
                 used |-> [k \in 1..Len(t.used) |-> EraseRemove(t.used[k], id)]],
          st |-> VA_STATUS_SUCCESS]

\* UnRegisterRTSurface that erases the id from the open picture set only.
UnRegister_OpenSetOnly(t, id) ==
    IF ~IsRegistered(t.map, id)
    THEN [t |-> t, st |-> VA_STATUS_ERROR_INVALID_PARAMETER]
    ELSE [t |-> [map |-> MapErase(t.map, id),
                 pool |-> Append(t.pool, t.map[id]),
                 used |-> [k \in 1..Len(t.used) |->
                              IF k = 1 THEN EraseRemove(t.used[k], id) ELSE t.used[k]]],
          st |-> VA_STATUS_SUCCESS]

\* UnRegisterRTSurface that closes the gap: the surfaces on a higher index
\* move one index down and the highest assigned index goes back to the pool.
UnRegister_Renumbers(t, id) ==
    IF ~IsRegistered(t.map, id)
    THEN [t |-> t, st |-> VA_STATUS_ERROR_INVALID_PARAMETER]
    ELSE LET top == CHOOSE m \in {t.map[h] : h \in DOMAIN t.map} :
                        \A h \in DOMAIN t.map : t.map[h] <= m
         IN  [t |-> [map |-> [h \in (DOMAIN t.map) \ {id} |->
                                 IF t.map[h] > t.map[id] THEN t.map[h] - 1 ELSE t.map[h]],
                     pool |-> Append(t.pool, top),
                     used |-> [k \in 1..Len(t.used) |-> EraseRemove(t.used[k], id)]],
              st |-> VA_STATUS_SUCCESS]

\* UnRegisterRTSurface(id) on the containers t: the containers after it and its status.
UnRegister(t, id) ==
    IF ~IsRegistered(t.map, id)
    THEN [t |-> t, st |-> VA_STATUS_ERROR_INVALID_PARAMETER]
    ELSE [t |-> [map |-> MapErase(t.map, id),
                 pool |-> Append(t.pool, t.map[id]),
                 used |-> [k \in 1..Len(t.used) |-> EraseRemove(t.used[k], id)]],
          st |-> VA_STATUS_SUCCESS]

\* bool unusedSurface = (surfaces.find(el) == surfaces.end())
UnusedSurface(surfaces, el) == el \notin surfaces

\* The loop of RemoveLastHistoryElement over lastList from position k on:
\* unregisters the unused surfaces in order, and returns at the first
\* UnRegisterRTSurface that fails.  gone collects the ids unregistered.
RECURSIVE EvictLoop(_, _, _, _, _)
EvictLoop(t, lastList, surfaces, k, gone) ==
    IF k > Len(lastList)
    THEN [t |-> t, st |-> VA_STATUS_SUCCESS, gone |-> gone]
    ELSE IF UnusedSurface(surfaces, lastList[k])
         THEN LET r == UnRegister(t, lastList[k]) IN
              IF r.st # VA_STATUS_SUCCESS
              THEN [t |-> t, st |-> VA_STATUS_ERROR_OPERATION_FAILED, gone |-> gone]
              ELSE EvictLoop(r.t, lastList, surfaces, k + 1, Append(gone, lastList[k]))
         ELSE EvictLoop(t, lastList, surfaces, k + 1, gone)

\* surfaces built from the closed picture sets only, the open one forgotten.
RemainingSurfaces_ClosedOnly(used) ==
    IF Len(used) = 0 THEN {} ELSE Members(Tail(used))

\* std::set<VASurfaceID> surfaces: the ids of the picture sets left after pop_back
RemainingSurfaces(used) == Members(used)

\* RemoveLastHistoryElement that forgets the pop_back(): the oldest set stays.
RemoveLastHistoryElement_NoPop(t) ==
    LET lastList == t.used[Len(t.used)]
        popped == SubSeq(t.used, 1, Len(t.used) - 1)
    IN  EvictLoop(t, lastList, RemainingSurfaces(popped), 1, <<>>)

\* RemoveLastHistoryElement() on the containers t (m_usedSurfaces not empty).
RemoveLastHistoryElement(t) ==
    LET lastList == t.used[Len(t.used)]
        popped == SubSeq(t.used, 1, Len(t.used) - 1)
    IN  EvictLoop([t EXCEPT !.used = popped], lastList, RemainingSurfaces(popped), 1, <<>>)

\* m_usedSurfaces[0].push_back(id), m_usedSurfaces not empty
PushOpen(used, id) == [used EXCEPT ![1] = Append(@, id)]

\* The while condition of RegisterRTSurface.
EvictMore(t) == Len(t.pool) = 0 /\ Len(t.used) > 0

\* back() without the pop_back(): the index stays in the pool.
AssignIndex_NoPop(t, id) ==
    [t EXCEPT !.map = MapAssign(t.map, id, t.pool[Len(t.pool)])]

\* m_va_to_rt_map[id] = m_free_index_pool.back(); m_free_index_pool.pop_back();
AssignIndex(t, id) ==
    [t EXCEPT !.map = MapAssign(t.map, id, t.pool[Len(t.pool)]),
              !.pool = SubSeq(t.pool, 1, Len(t.pool) - 1)]

\* the comparison off by one: the history is let grow one set longer.
HistoryOverflow_OffByOne(used) == Len(used) > maxHistorySize + 1

\* BegeinPicture: if (m_usedSurfaces.size() > maxHistorySize)
HistoryOverflow(used) == Len(used) > maxHistorySize

\* GetFrameIdx without the IsRegistered test.
GetFrameIdxOf_NoTest(t, id) ==
    IF id = VA_INVALID_ID
    THEN [t |-> t, ret |-> INVALID_RT_TABLE_INDEX]
    ELSE LET m == IF id \in DOMAIN t.map THEN t.map ELSE MapAssign(t.map, id, 0)
         IN  [t |-> [t EXCEPT !.map = m], ret |-> m[id]]

\* GetFrameIdx(id): the value returned and the containers after the call
\* (m_va_to_rt_map[id] is the map's operator[], which inserts a missing key
\* with a zero index).
GetFrameIdxOf(t, id) ==
    IF id = VA_INVALID_ID \/ ~IsRegistered(t.map, id)
    THEN [t |-> t, ret |-> INVALID_RT_TABLE_INDEX]
    ELSE LET m == IF id \in DOMAIN t.map THEN t.map ELSE MapAssign(t.map, id, 0)
         IN  [t |-> [t EXCEPT !.map = m], ret |-> m[id]]

\* GetVAID(FrameIdx): find_if over the map in key order
GetVAIDOf(map, FrameIdx) ==
    LET hits == {h \in DOMAIN map : map[h] = FrameIdx} IN
    IF hits = {} THEN VA_INVALID_ID
    ELSE CHOOSE h \in hits : \A g \in hits : h <= g

\* ------------------------------------------------------------ the client
\* Three clients drive the table, each with the methods a caller of that kind
\* uses.  The "wide" client registers and unregisters NumHandles surfaces,
\* queries the table and re-initialises it; the "targets" client sets the
\* current and the reconstructed render target of each picture; both record
\* at most MaxEpochLen ids per picture and keep the history at most
\* MaxHistoryWide picture sets long.  The "deep" client decodes a long stream
\* with two surfaces: surface 1 is used by the first picture only, surface 2
\* by every picture, each at most once per picture; its history grows to
\* maxHistorySize and overflows.
Profiles == {"wide", "targets", "deep"}

Methods ==
    [wide    |-> {"Init", "BegeinPicture", "RegisterRTSurface", "UnRegisterRTSurface",
                  "GetFrameIdx", "GetVAID"},
     targets |-> {"BegeinPicture", "SetCurrentRTSurface",
                  "SetCurrentReconTarget", "UnRegisterRTSurface"},
     deep    |-> {"BegeinPicture", "RegisterRTSurface", "UnRegisterRTSurface"}]

MayCall(op) == pc = "idle" /\ op \in Methods[profile]

DeepIds == 1..2

Ids == IF profile = "deep" THEN DeepIds ELSE 1..NumHandles

MayRecord(id) ==
    IF id = VA_INVALID_ID \/ Len(m_usedSurfaces) = 0
    THEN TRUE
    ELSE IF profile # "deep"
    THEN Len(m_usedSurfaces[1]) < MaxEpochLen
    ELSE /\ id \notin Elems(m_usedSurfaces[1])
         /\ (id = 1 => Len(m_usedSurfaces) <= 1)

MayBegin ==
    IF profile = "deep" \/ Len(m_usedSurfaces) = 0
    THEN TRUE
    ELSE Len(m_usedSurfaces[1]) = 0 \/ Len(m_usedSurfaces) < MaxHistoryWide

\* what twin holds where a single table runs
NoTwin == [t |-> [map |-> <<>>, pool |-> <<>>, used |-> <<>>], st |-> NoStatus, forked |-> FALSE]

\* what ret holds after a method that returns no index and no id
NoValue == VA_INVALID_ID - 1

\* ------------------------------------------------------------ the state after construction and Init
Init ==
    /\ profile \in Profiles
    /\ \E n \in 1..MaxCapacity :
          /\ max_num_entries = n
          /\ m_va_to_rt_map = InitTable(n).map
          /\ m_free_index_pool = InitTable(n).pool
          /\ m_usedSurfaces = InitTable(n).used
          /\ call = [op |-> "Init", arg |-> n]
    /\ m_current_rt_surface = VA_INVALID_ID
    /\ m_current_recon_target = VA_INVALID_ID
    /\ pc = "idle"
    /\ status = NoStatus
    /\ ret = NoValue
    /\ pre = NoPre
    /\ evicted = <<>>
    /\ i = 0
    /\ twin = NoTwin

\* ------------------------------------------------------------ the methods

\* Init(n) called again on a live table.
ReInit(n) ==
    /\ MayCall("Init")
    /\ max_num_entries' = n
    /\ SetTable(InitTable(n))
    /\ m_current_rt_surface' = VA_INVALID_ID
    /\ m_current_recon_target' = VA_INVALID_ID
    /\ call' = [op |-> "Init", arg |-> n]
    /\ status' = NoStatus
    /\ ret' = NoValue
    /\ evicted' = <<>>
    /\ UNCHANGED <<pc, pre, profile, i, twin>>

\* An access to m_usedSurfaces[0] of an empty m_usedSurfaces ended the process.
Crash(op, arg) ==
    /\ pc' = "crashed"
    /\ call' = [op |-> op, arg |-> arg]
    /\ UNCHANGED <<m_current_rt_surface, m_current_recon_target, m_va_to_rt_map,
                   m_free_index_pool, m_usedSurfaces, max_num_entries, status,
                   ret, pre, evicted, profile, i, twin>>

\* Return that stores id in the target whatever RegisterRTSurface returned.
Return_SetsOnFailure(op, id, st) ==
    /\ pc' = "idle"
    /\ pre' = NoPre
    /\ IF op = "SetCurrentRTSurface"
       THEN /\ status' = IF st # VA_STATUS_SUCCESS
                         THEN VA_STATUS_ERROR_INVALID_PARAMETER ELSE VA_STATUS_SUCCESS
            /\ m_current_rt_surface' = id
            /\ UNCHANGED m_current_recon_target
       ELSE IF op = "SetCurrentReconTarget"
       THEN /\ status' = IF st # VA_STATUS_SUCCESS
                         THEN VA_STATUS_ERROR_INVALID_PARAMETER ELSE VA_STATUS_SUCCESS
            /\ m_current_recon_target' = id
            /\ UNCHANGED m_current_rt_surface
       ELSE /\ status' = st
            /\ UNCHANGED <<m_current_rt_surface, m_current_recon_target>>

\* RegisterRTSurface(id) returns st to the method op that called it:
\* the public RegisterRTSurface itself, SetCurrentRTSurface or SetCurrentReconTarget.
Return(op, id, st) ==
    /\ pc' = "idle"
    /\ pre' = NoPre
    /\ IF op = "SetCurrentRTSurface"
       THEN /\ status' = IF st # VA_STATUS_SUCCESS
                         THEN VA_STATUS_ERROR_INVALID_PARAMETER ELSE VA_STATUS_SUCCESS
            /\ m_current_rt_surface' = IF st # VA_STATUS_SUCCESS
                                       THEN m_current_rt_surface ELSE id
            /\ UNCHANGED m_current_recon_target
       ELSE IF op = "SetCurrentReconTarget"
       THEN /\ status' = IF st # VA_STATUS_SUCCESS
                         THEN VA_STATUS_ERROR_INVALID_PARAMETER ELSE VA_STATUS_SUCCESS
            /\ m_current_recon_target' = IF st # VA_STATUS_SUCCESS
                                         THEN m_current_recon_target ELSE id
            /\ UNCHANGED m_current_rt_surface
       ELSE /\ status' = st
            /\ UNCHANGED <<m_current_rt_surface, m_current_recon_target>>

\* RegisterRTSurface after m_usedSurfaces[0].push_back(id) left the history as u:
\* a registered id returns at once, any other enters the while loop.
Recorded(op, id, u) ==
    /\ call' = [op |-> op, arg |-> id]
    /\ m_usedSurfaces' = u
    /\ UNCHANGED <<m_va_to_rt_map, m_free_index_pool, max_num_entries, ret, evicted, profile, i, twin>>
    /\ IF IsRegistered(m_va_to_rt_map, id)
       THEN Return(op, id, VA_STATUS_SUCCESS)
       ELSE /\ pc' = "reg_loop"
            /\ pre' = Snapshot(Table)
            /\ status' = NoStatus
            /\ UNCHANGED <<m_current_rt_surface, m_current_recon_target>>

\* RegisterRTSurface(id) up to its while loop, called from op.
\* On an empty m_usedSurfaces the push_back goes through m_usedSurfaces[0],
\* an element that does not exist: the process dies, or the write lands in
\* the storage of the destroyed element and the history stays empty.
RegisterEnter(op, id) ==
    IF id = VA_INVALID_ID
    THEN /\ call' = [op |-> op, arg |-> id]
         /\ Return(op, id, VA_STATUS_ERROR_INVALID_PARAMETER)
         /\ UNCHANGED <<m_va_to_rt_map, m_free_index_pool, m_usedSurfaces,
                        max_num_entries, ret, evicted, profile, i, twin>>
    ELSE \/ /\ Len(m_usedSurfaces) > 0
            /\ Recorded(op, id, PushOpen(m_usedSurfaces, id))
         \/ /\ Len(m_usedSurfaces) = 0
            /\ Crash(op, id)
         \/ /\ Len(m_usedSurfaces) = 0
            /\ Recorded(op, id, m_usedSurfaces)

RegisterRTSurface(id) ==
    /\ MayCall("RegisterRTSurface")
    /\ MayRecord(id)
    /\ RegisterEnter("RegisterRTSurface", id)

SetCurrentRTSurface(id) ==
    /\ MayCall("SetCurrentRTSurface")
    /\ MayRecord(id)
    /\ IF id # VA_INVALID_ID
       THEN RegisterEnter("SetCurrentRTSurface", id)
       ELSE /\ m_current_rt_surface' = id
            /\ status' = VA_STATUS_SUCCESS
            /\ call' = [op |-> "SetCurrentRTSurface", arg |-> id]
            /\ UNCHANGED <<m_current_recon_target, m_va_to_rt_map, m_free_index_pool,
                           m_usedSurfaces, max_num_entries, pc, ret, pre, evicted, profile, i, twin>>

\* SetCurrentReconTarget that accepts VA_INVALID_ID as SetCurrentRTSurface does.
SetCurrentReconTarget_AcceptsInvalid(id) ==
    /\ MayCall("SetCurrentReconTarget")
    /\ MayRecord(id)
    /\ IF id # VA_INVALID_ID
       THEN RegisterEnter("SetCurrentReconTarget", id)
       ELSE /\ m_current_recon_target' = id
            /\ status' = VA_STATUS_SUCCESS
            /\ call' = [op |-> "SetCurrentReconTarget", arg |-> id]
            /\ UNCHANGED <<m_current_rt_surface, m_va_to_rt_map, m_free_index_pool,
                           m_usedSurfaces, max_num_entries, pc, ret, pre, evicted, profile, i, twin>>

SetCurrentReconTarget(id) ==
    /\ MayCall("SetCurrentReconTarget")
    /\ MayRecord(id)
    /\ RegisterEnter("SetCurrentReconTarget", id)

\* One iteration of the while loop of RegisterRTSurface: DDI_CHK_RET returns
\* the status of a RemoveLastHistoryElement that failed.
RegisterEvict ==
    /\ pc = "reg_loop"
    /\ EvictMore(Table)
    /\ LET r == RemoveLastHistoryElement(Table) IN
          /\ SetTable(r.t)
          /\ evicted' = evicted \o r.gone
          /\ IF r.st # VA_STATUS_SUCCESS
             THEN Return(call.op, call.arg, r.st)
             ELSE UNCHANGED <<pc, pre, status, m_current_rt_surface, m_current_recon_target>>
    /\ UNCHANGED <<max_num_entries, call, ret, profile, i, twin>>

\* RegisterRTSurface after its while loop.
RegisterAssign ==
    /\ pc = "reg_loop"
    /\ ~EvictMore(Table)
    /\ IF Len(m_free_index_pool) = 0
       THEN /\ Return(call.op, call.arg, VA_STATUS_ERROR_OPERATION_FAILED)
            /\ UNCHANGED <<m_va_to_rt_map, m_free_index_pool, m_usedSurfaces>>
       ELSE /\ SetTable(AssignIndex(Table, call.arg))
            /\ Return(call.op, call.arg, VA_STATUS_SUCCESS)
    /\ UNCHANGED <<max_num_entries, call, ret, evicted, profile, i, twin>>

UnRegisterRTSurface(id) ==
    /\ MayCall("UnRegisterRTSurface")
    /\ LET r == UnRegister(Table, id) IN
          /\ SetTable(r.t)
          /\ status' = r.st
    /\ call' = [op |-> "UnRegisterRTSurface", arg |-> id]
    /\ ret' = NoValue
    /\ evicted' = <<>>
    /\ UNCHANGED <<m_current_rt_surface, m_current_recon_target, max_num_entries,
                   pc, pre, profile, i, twin>>

\* BegeinPicture without the test of the open picture set: it always inserts.
BeginWith_AlwaysInsert(openSize) ==
    /\ LET ins == << <<>> >> \o m_usedSurfaces IN
       IF HistoryOverflow(ins)
       THEN LET r == RemoveLastHistoryElement([Table EXCEPT !.used = ins]) IN
            /\ SetTable(r.t)
            /\ evicted' = r.gone
       ELSE /\ m_usedSurfaces' = ins
            /\ evicted' = <<>>
            /\ UNCHANGED <<m_va_to_rt_map, m_free_index_pool>>
    /\ call' = [op |-> "BegeinPicture", arg |-> VA_INVALID_ID]
    /\ status' = NoStatus
    /\ ret' = NoValue
    /\ UNCHANGED <<m_current_rt_surface, m_current_recon_target, max_num_entries,
                   pc, pre, profile, i, twin>>

\* BegeinPicture with the size of the open picture set read as openSize.
BeginWith(openSize) ==
    /\ IF openSize > 0
       THEN LET ins == << <<>> >> \o m_usedSurfaces IN
            IF HistoryOverflow(ins)
            THEN LET r == RemoveLastHistoryElement([Table EXCEPT !.used = ins]) IN
                 /\ SetTable(r.t)
                 /\ evicted' = r.gone
            ELSE /\ m_usedSurfaces' = ins
                 /\ evicted' = <<>>
                 /\ UNCHANGED <<m_va_to_rt_map, m_free_index_pool>>
       ELSE /\ evicted' = <<>>
            /\ UNCHANGED <<m_va_to_rt_map, m_free_index_pool, m_usedSurfaces>>
    /\ call' = [op |-> "BegeinPicture", arg |-> VA_INVALID_ID]
    /\ status' = NoStatus
    /\ ret' = NoValue
    /\ UNCHANGED <<m_current_rt_surface, m_current_recon_target, max_num_entries,
                   pc, pre, profile, i, twin>>

\* On an empty m_usedSurfaces, m_usedSurfaces[0].size() reads an element that
\* does not exist: the process dies, or the read returns what the storage of
\* the destroyed element holds, a zero size or a stale one.
BegeinPicture ==
    /\ MayCall("BegeinPicture")
    /\ MayBegin
    /\ \/ /\ Len(m_usedSurfaces) > 0
          /\ BeginWith(Len(m_usedSurfaces[1]))
       \/ /\ Len(m_usedSurfaces) = 0
          /\ Crash("BegeinPicture", VA_INVALID_ID)
       \/ /\ Len(m_usedSurfaces) = 0
          /\ \E stale \in 0..1 : BeginWith(stale)

GetFrameIdx(id) ==
    /\ MayCall("GetFrameIdx")
    /\ LET r == GetFrameIdxOf(Table, id) IN
          /\ SetTable(r.t)
          /\ ret' = r.ret
    /\ call' = [op |-> "GetFrameIdx", arg |-> id]
    /\ status' = NoStatus
    /\ evicted' = <<>>
    /\ UNCHANGED <<m_current_rt_surface, m_current_recon_target, max_num_entries,
                   pc, pre, profile, i, twin>>

GetVAID(FrameIdx) ==
    /\ MayCall("GetVAID")
    /\ ret' = GetVAIDOf(m_va_to_rt_map, FrameIdx)
    /\ call' = [op |-> "GetVAID", arg |-> FrameIdx]
    /\ status' = NoStatus
    /\ evicted' = <<>>
    /\ UNCHANGED <<m_current_rt_surface, m_current_recon_target, m_va_to_rt_map,
                   m_free_index_pool, m_usedSurfaces, max_num_entries, pc, pre, profile, i, twin>>

\* the arguments the client passes
IdArgs == Ids \cup {VA_INVALID_ID}

IdxArgs == (0..max_num_entries) \cup {INVALID_RT_TABLE_INDEX}

Next ==
    \/ \E n \in 1..MaxCapacity : ReInit(n)
    \/ BegeinPicture
    \/ \E id \in IdArgs : RegisterRTSurface(id)
    \/ \E id \in IdArgs : SetCurrentRTSurface(id)
    \/ \E id \in IdArgs : SetCurrentReconTarget(id)
    \/ RegisterEvict
    \/ RegisterAssign
    \/ \E id \in IdArgs : UnRegisterRTSurface(id)
    \/ \E id \in IdArgs : GetFrameIdx(id)
    \/ \E idx \in IdxArgs : GetVAID(idx)

Spec == Init /\ [][Next]_vars

\* ------------------------------------------------------------ what the claims speak of
Registered == DOMAIN m_va_to_rt_map

AssignedIndices == {m_va_to_rt_map[h] : h \in Registered}

FreeIndices == Elems(m_free_index_pool)

\* the picture sets that stay when the oldest one is dropped
NewerSets(used) == SubSeq(used, 1, Len(used) - 1)

\* This step is one iteration of RegisterRTSurface's eviction loop.
RegisterDropStep == pc = "reg_loop" /\ EvictMore(Table)

\* This step is a BegeinPicture that overflows the window and drops the oldest set.
BeginDropStep ==
    /\ pc = "idle"
    /\ call'.op = "BegeinPicture"
    /\ Len(m_usedSurfaces) >= maxHistorySize
    /\ Len(m_usedSurfaces') = Len(m_usedSurfaces)
    /\ m_usedSurfaces' # m_usedSurfaces

\* This step is the return of a RegisterRTSurface(id) that the client called
\* itself and that went into the while loop (id valid and not registered).
RegisterLoopReturn ==
    /\ pc = "reg_loop"
    /\ pc' = "idle"
    /\ call.op = "RegisterRTSurface"

\* ------------------------------------------------------------ the claims

\* C1: no two distinct registered handles are mapped to the same index.
C1_IndexUniqueness ==
    \A g \in Registered : \A h \in Registered :
        g # h => m_va_to_rt_map[g] # m_va_to_rt_map[h]

\* Two handles are registered, the second one on an index that an eviction freed.
C1_Witness ==
    /\ pc = "idle"
    /\ call.op = "RegisterRTSurface"
    /\ status = VA_STATUS_SUCCESS
    /\ evicted # <<>>
    /\ Cardinality(Registered) = 2

\* C2: the pool and the assigned indices are disjoint, the pool holds no index
\* twice, together they are exactly 0 .. capacity-1, and the number of
\* registered handles plus the length of the pool is the capacity.
C2_PoolPartition ==
    /\ FreeIndices \cap AssignedIndices = {}
    /\ Cardinality(FreeIndices) = Len(m_free_index_pool)
    /\ FreeIndices \cup AssignedIndices = 0..(max_num_entries - 1)
    /\ Cardinality(Registered) + Len(m_free_index_pool) = max_num_entries

\* A RegisterRTSurface has failed after its eviction unregistered a handle.
C2_Witness ==
    /\ pc = "idle"
    /\ call.op = "RegisterRTSurface"
    /\ status = VA_STATUS_ERROR_OPERATION_FAILED
    /\ evicted # <<>>
    /\ Registered # {}

\* C4: a drop of the oldest picture set (by BegeinPicture on overflow or by
\* RegisterRTSurface's loop) unregisters no handle that is a member of a set
\* that stays in the history, and such a handle keeps its index.
C4_EvictionSafety ==
    [][ (RegisterDropStep \/ BeginDropStep) =>
            \A h \in Members(NewerSets(m_usedSurfaces)) \cap Registered :
                /\ h \in DOMAIN m_va_to_rt_map'
                /\ m_va_to_rt_map'[h] = m_va_to_rt_map[h] ]_vars

\* Inside RegisterRTSurface, after a drop that unregistered one handle of the
\* dropped set and kept another one, which a newer set holds.
C4_Witness ==
    /\ pc = "reg_loop"
    /\ pre.set
    /\ Len(m_usedSurfaces) < Len(pre.used)
    /\ evicted # <<>>
    /\ \E h \in Elems(pre.used[Len(pre.used)]) :
          /\ h \in Members(m_usedSurfaces)
          /\ h \in Registered
          /\ m_va_to_rt_map[h] = pre.map[h]

\* C8: the history never holds more than maxHistorySize picture sets.
C8_WindowBound == Len(m_usedSurfaces) <= maxHistorySize

\* BegeinPicture has overflowed the window, dropped the oldest set and
\* unregistered its surface; the history is maxHistorySize sets long.
C8_Witness ==
    /\ pc = "idle"
    /\ call.op = "BegeinPicture"
    /\ Len(m_usedSurfaces) = maxHistorySize
    /\ evicted # <<>>

\* The table as it was when the method that returns in this step was called.
Before == IF pc = "reg_loop" THEN pre ELSE Snapshot(Table)

\* This step is a RegisterRTSurface, called by the client itself, returning a failure.
RegisterFails ==
    /\ pc \in {"idle", "reg_loop"}
    /\ pc' = "idle"
    /\ call'.op = "RegisterRTSurface"
    /\ status' \in {VA_STATUS_ERROR_INVALID_PARAMETER, VA_STATUS_ERROR_OPERATION_FAILED}

\* C3: a RegisterRTSurface that returns a failure leaves the map, the pool and
\* the members of every picture set, the open one included, as they were
\* before the call.
C3_FailedRegisterNoEffect ==
    [][ RegisterFails =>
            /\ m_va_to_rt_map' = Before.map
            /\ m_free_index_pool' = Before.pool
            /\ Len(m_usedSurfaces') = Len(Before.used)
            /\ \A k \in 1..Len(Before.used) :
                  Elems(m_usedSurfaces'[k]) = Elems(Before.used[k]) ]_vars

\* C5: RegisterRTSurface unregisters no handle of the picture set that was
\* open when it was called; with the pool empty and every registered handle in
\* the open set, registering a new handle fails with OPERATION_FAILED and
\* leaves the registered handles and their indices as they were.
C5_OpenSetProtected ==
    [][ (RegisterLoopReturn /\ Len(pre.used) >= 1) =>
            /\ \A h \in Elems(pre.used[1]) \cap DOMAIN pre.map :
                  /\ h \in DOMAIN m_va_to_rt_map'
                  /\ m_va_to_rt_map'[h] = pre.map[h]
            /\ (pre.pool = <<>> /\ DOMAIN pre.map \subseteq Elems(pre.used[1])) =>
                  /\ status' = VA_STATUS_ERROR_OPERATION_FAILED
                  /\ m_va_to_rt_map' = pre.map ]_vars

\* The eviction procedure as the specification words it, on a table
\* [map, free, used] with the pool as a set: drop the oldest set and
\* unregister each of its handles that no remaining set holds.
SpecDrop(t) ==
    LET newer == NewerSets(t.used)
        doomed == (Elems(t.used[Len(t.used)]) \ Members(newer)) \cap DOMAIN t.map
    IN  [map |-> [h \in (DOMAIN t.map) \ doomed |-> t.map[h]],
         free |-> t.free \cup {t.map[h] : h \in doomed},
         used |-> newer]

\* "while FreeIndexPool is empty and EpochHistory has more than the open
\* epoch, repeatedly evict the oldest closed epoch"
RECURSIVE SpecEvictClosed(_)
SpecEvictClosed(t) ==
    IF t.free = {} /\ Len(t.used) > 1 THEN SpecEvictClosed(SpecDrop(t)) ELSE t

\* C6: for a valid handle that is not registered, RegisterRTSurface fails with
\* OPERATION_FAILED exactly when the pool is still empty after the closed sets
\* have been evicted oldest first, and otherwise succeeds with an index of the
\* pool; with the pool empty and a registered handle of the oldest closed set
\* in no newer set (however often it is recorded) the call succeeds and that
\* handle is unregistered; and when the call fails the pool is empty on return.
C6_FailsIffNothingEvictable ==
    [][ (RegisterLoopReturn /\ Len(pre.used) >= 1) =>
            LET id == call.arg
                start == [map |-> pre.map, free |-> Elems(pre.pool),
                          used |-> PushOpen(pre.used, id)]
                e == SpecEvictClosed(start)
                oldest == Elems(pre.used[Len(pre.used)])
                lonely == {h \in oldest \cap DOMAIN pre.map :
                              h \notin Members(NewerSets(start.used))}
            IN  /\ status' \in {VA_STATUS_SUCCESS, VA_STATUS_ERROR_OPERATION_FAILED}
                /\ (status' = VA_STATUS_ERROR_OPERATION_FAILED) <=> (e.free = {})
                /\ status' = VA_STATUS_SUCCESS =>
                      /\ id \in DOMAIN m_va_to_rt_map'
                      /\ m_va_to_rt_map'[id] \in e.free
                /\ status' = VA_STATUS_ERROR_OPERATION_FAILED => m_free_index_pool' = <<>>
                /\ (pre.pool = <<>> /\ Len(pre.used) > 1 /\ lonely # {}) =>
                      /\ status' = VA_STATUS_SUCCESS
                      /\ id \in DOMAIN m_va_to_rt_map'
                      /\ lonely \cap DOMAIN m_va_to_rt_map' = {} ]_vars

\* C7: the history always holds at least one picture set, the open one.
C7_OpenSetExists == Len(m_usedSurfaces) >= 1

\* C9: GetFrameIdx of a registered handle is an index below the capacity and
\* GetVAID maps it back to the handle; GetVAID of a free index is
\* VA_INVALID_ID; GetFrameIdx of VA_INVALID_ID and of an unregistered handle
\* is INVALID_RT_TABLE_INDEX; and GetFrameIdx leaves the table as it is.
C9_IndexHandleInverse ==
    /\ \A h \in Registered :
          LET idx == GetFrameIdxOf(Table, h).ret IN
          /\ idx \in 0..(max_num_entries - 1)
          /\ GetVAIDOf(m_va_to_rt_map, idx) = h
    /\ \A idx \in FreeIndices : GetVAIDOf(m_va_to_rt_map, idx) = VA_INVALID_ID
    /\ \A h \in (IdArgs \ Registered) :
          GetFrameIdxOf(Table, h).ret = INVALID_RT_TABLE_INDEX
    /\ \A h \in IdArgs : GetFrameIdxOf(Table, h).t = Table

\* GetFrameIdx has returned the index of a registered handle, an index that an
\* earlier handle held before it was unregistered, and another index is free.
C9_Witness ==
    /\ pc = "idle"
    /\ call.op = "GetFrameIdx"
    /\ call.arg \in Registered
    /\ ret = m_va_to_rt_map[call.arg]
    /\ ret # 0
    /\ GetVAIDOf(m_va_to_rt_map, ret) = call.arg
    /\ m_free_index_pool # <<>>

\* C10: RegisterRTSurface of a registered handle returns VA_STATUS_SUCCESS and
\* leaves the map, the pool and the number of picture sets as they were.
C10_RegisterIdempotent ==
    [][ (/\ pc = "idle"
         /\ call'.op = "RegisterRTSurface"
         /\ call'.arg \in Registered) =>
            /\ pc' = "idle"
            /\ status' = VA_STATUS_SUCCESS
            /\ m_va_to_rt_map' = m_va_to_rt_map
            /\ m_free_index_pool' = m_free_index_pool
            /\ Len(m_usedSurfaces') = Len(m_usedSurfaces) ]_vars

\* C11 as the specification states it: in every state the current render
\* target and the current reconstructed target are each the invalid id or a
\* registered surface.
C11_TargetsRegistered ==
    /\ m_current_rt_surface \in Registered \cup {VA_INVALID_ID}
    /\ m_current_recon_target \in Registered \cup {VA_INVALID_ID}

\* C11, amended: a step that changes the current render target or the current
\* reconstructed target leaves it the invalid id or a surface registered at
\* the end of that step; no other step resets it, so after an
\* UnRegisterRTSurface or an eviction of that surface it names a surface
\* that is registered no longer.
C11_TargetsRegisteredWhenSet ==
    [][ /\ m_current_rt_surface' # m_current_rt_surface
           => m_current_rt_surface' \in (DOMAIN m_va_to_rt_map') \cup {VA_INVALID_ID}
        /\ m_current_recon_target' # m_current_recon_target
           => m_current_recon_target' \in (DOMAIN m_va_to_rt_map') \cup {VA_INVALID_ID}
      ]_vars

\* SetCurrentReconTarget(h) has just set the reconstructed target to a surface
\* it registered on an index an eviction freed, and the current render
\* target is another surface.
C11_Witness ==
    /\ pc = "idle"
    /\ call.op = "SetCurrentReconTarget"
    /\ status = VA_STATUS_SUCCESS
    /\ m_current_recon_target = call.arg
    /\ m_current_recon_target \in Registered
    /\ m_current_rt_surface \notin {VA_INVALID_ID, call.arg}
    /\ evicted # <<>>

\* the two targets as one value
Targets == <<m_current_rt_surface, m_current_recon_target>>

\* This step is a whole call UnRegisterRTSurface(call'.arg) by the client.
UnRegisterStep ==
    /\ pc = "idle"
    /\ pc' = "idle"
    /\ call'.op = "UnRegisterRTSurface"

\* C12: UnRegisterRTSurface(h) of an unregistered h returns
\* VA_STATUS_ERROR_INVALID_PARAMETER and leaves the table and the targets as
\* they were; of a registered h it returns VA_STATUS_SUCCESS, after it h is
\* not registered and in no picture set, the index h had is in the pool,
\* every other surface has the registration and index it had, and the
\* two targets have the values they had, also when they are h.
C12_UnRegisterContract ==
    [][ UnRegisterStep =>
          LET h == call'.arg IN
          /\ Targets' = Targets
          /\ IF h \notin DOMAIN m_va_to_rt_map
             THEN /\ status' = VA_STATUS_ERROR_INVALID_PARAMETER
                  /\ Table' = Table
             ELSE /\ status' = VA_STATUS_SUCCESS
                  /\ h \notin DOMAIN m_va_to_rt_map'
                  /\ h \notin Members(m_usedSurfaces')
                  /\ m_va_to_rt_map[h] \in Elems(m_free_index_pool')
                  /\ DOMAIN m_va_to_rt_map' = (DOMAIN m_va_to_rt_map) \ {h}
                  /\ \A g \in DOMAIN m_va_to_rt_map' :
                        m_va_to_rt_map'[g] = m_va_to_rt_map[g]
      ]_vars

\* UnRegisterRTSurface(h) has succeeded on the surface that the current render
\* target still names, while another surface is registered and the history
\* holds a closed picture set.
C12_Witness ==
    /\ pc = "idle"
    /\ call.op = "UnRegisterRTSurface"
    /\ status = VA_STATUS_SUCCESS
    /\ m_current_rt_surface = call.arg
    /\ call.arg \notin Registered
    /\ Registered # {}
    /\ Len(m_usedSurfaces) > 1

\* This step is the return of the method op to the client.
ReturnOf(op) ==
    /\ pc \in {"idle", "reg_loop"}
    /\ pc' = "idle"
    /\ call'.op = op

\* What C13 says of a returning set method, target being the variable it sets
\* and other the other one.
SetContract(target, targetAfter, other, otherAfter, acceptsInvalid) ==
    LET h == call'.arg IN
    /\ otherAfter = other
    /\ IF h # VA_INVALID_ID
       THEN \/ /\ status' = VA_STATUS_SUCCESS
               /\ targetAfter = h
               /\ h \in DOMAIN m_va_to_rt_map'
            \/ /\ status' = VA_STATUS_ERROR_INVALID_PARAMETER
               /\ targetAfter = target
               /\ h \notin DOMAIN m_va_to_rt_map'
       ELSE /\ Table' = Table
            /\ IF acceptsInvalid
               THEN status' = VA_STATUS_SUCCESS /\ targetAfter = VA_INVALID_ID
               ELSE status' = VA_STATUS_ERROR_INVALID_PARAMETER /\ targetAfter = target

C14_EvictionComplete ==
    [][ (RegisterDropStep \/ BeginDropStep) =>
            \A h \in Elems(m_usedSurfaces[Len(m_usedSurfaces)])
                        \ Members(NewerSets(m_usedSurfaces)) :
                /\ h \notin DOMAIN m_va_to_rt_map'
                /\ h \in DOMAIN m_va_to_rt_map
                      => m_va_to_rt_map[h] \in Elems(m_free_index_pool') ]_vars

\* ------------------------------------------------------------ two tables under the same calls
\* The while loop of RegisterRTSurface(id) and what follows it, run to its
\* return on the containers t: the containers after it and its status.
RECURSIVE RegisterLoop(_, _)
RegisterLoop(t, id) ==
    IF EvictMore(t)
    THEN LET r == RemoveLastHistoryElement(t) IN
         IF r.st # VA_STATUS_SUCCESS
         THEN [t |-> r.t, st |-> r.st]
         ELSE RegisterLoop(r.t, id)
    ELSE IF Len(t.pool) = 0
         THEN [t |-> t, st |-> VA_STATUS_ERROR_OPERATION_FAILED]
         ELSE [t |-> AssignIndex(t, id), st |-> VA_STATUS_SUCCESS]

\* A whole RegisterRTSurface(id) on the containers t, t.used not empty.
RegisterCall(t, id) ==
    IF id = VA_INVALID_ID
    THEN [t |-> t, st |-> VA_STATUS_ERROR_INVALID_PARAMETER]
    ELSE LET u == [t EXCEPT !.used = PushOpen(t.used, id)] IN
         IF IsRegistered(t.map, id)
         THEN [t |-> u, st |-> VA_STATUS_SUCCESS]
         ELSE RegisterLoop(u, id)

\* A whole BegeinPicture() on the containers t, t.used not empty.
BeginCall(t) ==
    IF Len(t.used[1]) > 0
    THEN LET ins == [t EXCEPT !.used = << <<>> >> \o t.used] IN
         IF HistoryOverflow(ins.used) THEN RemoveLastHistoryElement(ins).t ELSE ins
    ELSE t

\* Both tables after Init(n).
TwinInit ==
    /\ \E n \in 1..MaxCapacity :
          /\ max_num_entries = n
          /\ m_va_to_rt_map = InitTable(n).map
          /\ m_free_index_pool = InitTable(n).pool
          /\ m_usedSurfaces = InitTable(n).used
          /\ call = [op |-> "Init", arg |-> n]
          /\ twin = [t |-> InitTable(n), st |-> NoStatus, forked |-> FALSE]
    /\ m_current_rt_surface = VA_INVALID_ID
    /\ m_current_recon_target = VA_INVALID_ID
    /\ pc = "idle"
    /\ status = NoStatus
    /\ ret = NoValue
    /\ pre = NoPre
    /\ evicted = <<>>
    /\ profile = "wide"
    /\ i = 0

\* The client calls while both histories hold a picture set, records at most
\* MaxEpochLen ids in a picture (the second table holds one record more) and
\* keeps at most MaxHistoryWide picture sets.
TwinMayCall == Len(m_usedSurfaces) > 0 /\ Len(twin.t.used) > 0

TwinMayRecord ==
    IF TwinMayCall
    THEN /\ Len(m_usedSurfaces[1]) < MaxEpochLen
         /\ Len(twin.t.used[1]) <= MaxEpochLen
    ELSE FALSE

TwinMayBegin ==
    /\ TwinMayCall
    /\ Len(m_usedSurfaces) < MaxHistoryWide
    /\ Len(twin.t.used) < MaxHistoryWide

\* The two tables after a call that left the first as a and the second as b.
TwinAfter(op, arg, a, b, forked) ==
    /\ SetTable(a.t)
    /\ status' = a.st
    /\ twin' = [t |-> b.t, st |-> b.st, forked |-> forked]
    /\ call' = [op |-> op, arg |-> arg]
    /\ UNCHANGED <<m_current_rt_surface, m_current_recon_target, max_num_entries,
                   pc, ret, pre, evicted, profile, i>>

\* Where the two runs part: the first table registers id once, the second
\* registers it a second time in the same picture.
TwinFork(id) ==
    /\ ~twin.forked
    /\ TwinMayRecord
    /\ LET a == RegisterCall(Table, id) IN
       /\ Len(a.t.used) > 0
       /\ TwinAfter("RegisterRTSurface", id, a,
                    [t |-> RegisterCall(a.t, id).t, st |-> a.st], TRUE)

TwinRegister(id) ==
    /\ TwinMayRecord
    /\ TwinAfter("RegisterRTSurface", id, RegisterCall(Table, id),
                 RegisterCall(twin.t, id), twin.forked)

TwinUnRegister(id) ==
    /\ TwinAfter("UnRegisterRTSurface", id, UnRegister(Table, id),
                 UnRegister(twin.t, id), twin.forked)

TwinBegin ==
    /\ TwinMayBegin
    /\ TwinAfter("BegeinPicture", VA_INVALID_ID,
                 [t |-> BeginCall(Table), st |-> NoStatus],
                 [t |-> BeginCall(twin.t), st |-> NoStatus], twin.forked)

TwinNext ==
    \/ \E id \in 1..NumHandles : TwinFork(id)
    \/ \E id \in 1..NumHandles : TwinRegister(id)
    \/ \E id \in 1..NumHandles : TwinUnRegister(id)
    \/ TwinBegin

SpecTwin == TwinInit /\ [][TwinNext]_vars

\* C15: after one table recorded an id once and the other recorded it twice
\* in the same picture, every later BegeinPicture, RegisterRTSurface and
\* UnRegisterRTSurface returns the same status on both tables and leaves the
\* same surfaces registered in both.
C15_DuplicateRecordEquivalent ==
    twin.forked => /\ twin.st = status
                   /\ DOMAIN twin.t.map = DOMAIN m_va_to_rt_map

MaxInitPushes == 258

\* The capacities handed to Init: a small one and those around the width of RTTableIdx.
InitCapacities ==
    {1, 2 ^ RTTableIdxBits - 1, 2 ^ RTTableIdxBits, 2 ^ RTTableIdxBits + 1}

\* The table as the constructor leaves it.
Constructed ==
    /\ m_current_rt_surface = VA_INVALID_ID
    /\ m_current_recon_target = VA_INVALID_ID
    /\ m_va_to_rt_map = <<>>
    /\ m_free_index_pool = <<>>
    /\ m_usedSurfaces = <<>>
    /\ max_num_entries = 0
    /\ call = [op |-> "DDI_CODEC_RENDER_TARGET_TABLE", arg |-> 0]

\* The table after Init(1); SetCurrentRTSurface(1); SetCurrentReconTarget(1).
InUse ==
    /\ m_current_rt_surface = 1
    /\ m_current_recon_target = 1
    /\ m_va_to_rt_map = MapAssign(<<>>, 1, 0)
    /\ m_free_index_pool = <<>>
    /\ m_usedSurfaces = << <<1, 1>> >>
    /\ max_num_entries = 1
    /\ call = [op |-> "SetCurrentReconTarget", arg |-> 1]

\* Init is called on a table just constructed or on one in use.
InitStart ==
    /\ Constructed \/ InUse
    /\ pc = "idle"
    /\ status = NoStatus
    /\ ret = NoValue
    /\ pre = NoPre
    /\ evicted = <<>>
    /\ profile = "wide"
    /\ i = 0
    /\ twin = NoTwin

\* Init(n) up to its for loop.
InitEnter(n) ==
    /\ pc = "idle"
    /\ m_current_rt_surface' = VA_INVALID_ID
    /\ m_current_recon_target' = VA_INVALID_ID
    /\ m_free_index_pool' = <<>>
    /\ m_va_to_rt_map' = <<>>
    /\ m_usedSurfaces' = << <<>> >>
    /\ i' = 0
    /\ max_num_entries' = n
    /\ call' = [op |-> "Init", arg |-> n]
    /\ pc' = "init_loop"
    /\ UNCHANGED <<status, ret, pre, evicted, profile, twin>>

\* One test of i < max_num_entries, with the push_back(i) and the i++ of the
\* RTTableIdx counter when it holds, the return of Init when it does not.
InitLoop ==
    /\ pc = "init_loop"
    /\ Len(m_free_index_pool) < MaxInitPushes
    /\ IF i < max_num_entries
       THEN /\ m_free_index_pool' = Append(m_free_index_pool, i)
            /\ i' = (i + 1) % (2 ^ RTTableIdxBits)
            /\ pc' = "init_loop"
       ELSE /\ pc' = "idle"
            /\ i' = 0
            /\ UNCHANGED m_free_index_pool
    /\ UNCHANGED <<m_current_rt_surface, m_current_recon_target, m_va_to_rt_map,
                   m_usedSurfaces, max_num_entries, call, status, ret, pre,
                   evicted, profile, twin>>

InitNext ==
    \/ \E n \in InitCapacities : InitEnter(n)
    \/ InitLoop

SpecInit == InitStart /\ [][InitNext]_vars

\* the pool that holds 0 .. n-1 in the order Init pushes them
Indices(n) == [k \in 1..n |-> k - 1]

\* C17: Init(capacity) terminates and leaves the two targets VA_INVALID_ID,
\* the map empty, one empty open picture set, and the pool holding each of
\* 0 .. capacity-1 once: its loop never pushes more than capacity indices
\* and no index twice, and when Init has returned the table is as described.
C17_InitResult ==
    /\ pc = "init_loop" =>
          /\ Len(m_free_index_pool) <= max_num_entries
          /\ m_free_index_pool = Indices(Len(m_free_index_pool))
    /\ (pc = "idle" /\ call.op = "Init") =>
          /\ m_current_rt_surface = VA_INVALID_ID
          /\ m_current_recon_target = VA_INVALID_ID
          /\ m_va_to_rt_map = <<>>
          /\ m_usedSurfaces = << <<>> >>
          /\ m_free_index_pool = Indices(max_num_entries)

\* This step is a whole BegeinPicture() on a history that holds an open picture set.
BeginStep ==
    /\ pc = "idle"
    /\ pc' = "idle"
    /\ call'.op = "BegeinPicture"
    /\ Len(m_usedSurfaces) > 0

\* C18: BegeinPicture with an empty open picture set leaves the table and the
\* targets as they were; with a non-empty one it puts a new empty open set in
\* front of the sets the history held, in their order, and unregisters
\* nothing, unless the history would grow past maxHistorySize, in which case
\* the sets in front of the oldest one stay, in their order.
C18_BeginFrame ==
    [][ BeginStep =>
          /\ Targets' = Targets
          /\ IF Len(m_usedSurfaces[1]) = 0
             THEN Table' = Table
             ELSE IF Len(m_usedSurfaces) < maxHistorySize
             THEN /\ m_usedSurfaces' = << <<>> >> \o m_usedSurfaces
                  /\ m_va_to_rt_map' = m_va_to_rt_map
                  /\ m_free_index_pool' = m_free_index_pool
             ELSE m_usedSurfaces' = << <<>> >> \o NewerSets(m_usedSurfaces)
      ]_vars

\* BegeinPicture has just sealed a picture set with two records while a
\* surface is registered, and nothing was unregistered.
C18_Witness ==
    /\ pc = "idle"
    /\ call.op = "BegeinPicture"
    /\ Len(m_usedSurfaces) > 1
    /\ m_usedSurfaces[1] = <<>>
    /\ Len(m_usedSurfaces[2]) > 1
    /\ Registered # {}
    /\ evicted = <<>>

\* C19: in every state every registered surface is recorded in at least one
\* picture set of the history.
C19_RegisteredInSomeEpoch == Registered \subseteq Members(m_usedSurfaces)

\* C20: a surface that is registered before and after a step has the same
\* index after it, and GetFrameIdx returns that index: no step of
\* BegeinPicture, RegisterRTSurface, UnRegisterRTSurface or of a set method
\* moves a surface that stays registered.
C20_IndexStable ==
    [][ \A h \in (DOMAIN m_va_to_rt_map) \cap (DOMAIN m_va_to_rt_map') :
          /\ m_va_to_rt_map'[h] = m_va_to_rt_map[h]
          /\ GetFrameIdxOf(Table, h).ret = m_va_to_rt_map[h]
          /\ GetFrameIdxOf(Table', h).ret = m_va_to_rt_map[h]
      ]_vars

\* UnRegisterRTSurface has just freed an index below the one of a surface
\* that stays registered.
C20_Witness ==
    /\ pc = "idle"
    /\ call.op = "UnRegisterRTSurface"
    /\ status = VA_STATUS_SUCCESS
    /\ \E h \in Registered : \E f \in FreeIndices : f < m_va_to_rt_map[h]

====
